---- MODULE Spec2Model ----
(***************************************************************************)
(* Model of atools::util polygon tools (src/util/polygontools.cpp):        *)
(* getPolygonOrientation, findCornerPoint, createPolyLines and             *)
(* getLongPolygonLines.                                                    *)
(*                                                                         *)
(* Numbers are fixed point: coordinates are integers, angles are tenths of *)
(* a degree, lengths are thousandths of a coordinate unit.  Indices into   *)
(* QVector / QPolygonF are 0-based as in the source; At(s, i) reads        *)
(* element i of the 1-based TLA+ sequence s.                               *)
(***************************************************************************)
EXTENDS Integers, Sequences, FiniteSets, TLC

VARIABLES
  polygon,          \* input: QPolygonF, a sequence of points <<x, y>>
  screenRect,       \* input: QRectF as [x, y, w, h]
  limit,            \* input: int limit
  maxAngle,         \* input: float maxAngle, tenths of a degree
  circleReq,        \* input: circle != nullptr
  pc,               \* which function has been applied to the inputs
  orientation,      \* result of getPolygonOrientation
  minPointIndex,    \* result of findCornerPoint
  cornerSize,       \* the size argument findCornerPoint was called with
  checkIntersect,   \* the mode createPolyLines was called with
  distLines,        \* list returned by createPolyLines
  anglesStdDev,     \* value written to *anglesStdDev, a rational [num, den]
  circle,           \* value written to *circle
  consecutiveLines, \* distLines after the combine step, before the sort
  sortedLines,      \* distLines after std::sort, before pruning
  result            \* list returned by getLongPolygonLines

vars == <<polygon, screenRect, limit, maxAngle, circleReq, pc, orientation,
          minPointIndex, cornerSize, checkIntersect, distLines, anglesStdDev,
          circle, consecutiveLines, sortedLines, result>>

outputs == <<orientation, minPointIndex, cornerSize, checkIntersect, distLines,
             anglesStdDev, circle, consecutiveLines, sortedLines, result>>

inputs == <<polygon, screenRect, limit, maxAngle, circleReq>>

-----------------------------------------------------------------------------
(* Bounds of the model *)

\* longest vertex sequence drawn as input polygon
MaxVertices == 4

\* vertex coordinates lie on the grid 0..2 x 0..2
Coords == 0 .. 2

\* the vertices of the polygons given to getLongPolygonLines: the corners of the
\* square (1,0) (2,1) (1,2) (0,1) and the grid corner (2,0)
Points == {<<1, 0>>, <<2, 0>>, <<0, 1>>, <<2, 1>>, <<1, 2>>}

\* the vertices of the polygons given to the orientation functions
GridPoints == Coords \X Coords

\* the vertices of the polygons given to createPolyLines: Points and the grid
\* corners (0,0) and (2,2), which lie on opposite sides of the smaller viewport
BuildPoints == Points \cup {<<0, 0>>, <<2, 2>>}

\* std::numeric_limits<double>::max(): above every coordinate of the model
DoubleMax == 1000000

-----------------------------------------------------------------------------
(* Geometry primitives *)

Abs(a) == IF a < 0 THEN -a ELSE a

At(s, i) == s[i + 1]

PX(p) == p[1]
PY(p) == p[2]

\* atools::wrapIndex
wrapIndex(index, size) == ((index % size) + size) % size

\* atools::almostEqual(f1, f2): |f1 - f2| <= epsilon, exact on integers
almostEqual(f1, f2) == f1 = f2

\* atools::almostEqual(f1, f2, epsilon)
almostEqualEps(f1, f2, epsilon) == Abs(f1 - f2) <= epsilon

\* QPolygonF::isClosed
isClosed(poly) == Len(poly) > 0 /\ poly[1] = poly[Len(poly)]

\* QLineF(p1, p2)
QLineF(p1, p2) == [p1 |-> p1, p2 |-> p2]

LineDx(line) == PX(line.p2) - PX(line.p1)
LineDy(line) == PY(line.p2) - PY(line.p1)

\* floor(sqrt(n)) by bisection, lo * lo <= n < hi * hi
RECURSIVE ISqrtBetween(_, _, _)
ISqrtBetween(n, lo, hi) ==
  IF hi - lo <= 1 THEN lo
  ELSE LET mid == (lo + hi) \div 2
       IN IF mid * mid <= n THEN ISqrtBetween(n, mid, hi)
                            ELSE ISqrtBetween(n, lo, mid)

\* the largest squared distance between two grid points
MaxD2 == 2 * Cardinality(Coords) * Cardinality(Coords)

\* sqrt(d2) in thousandths, for every squared distance of the grid
SqrtMilli == [d2 \in 0 .. MaxD2 |-> ISqrtBetween(d2 * 1000000, 0, 40000)]

\* QLineF::length(), thousandths
LineLength(line) == SqrtMilli[LineDx(line) * LineDx(line) + LineDy(line) * LineDy(line)]

\* atan(p / q) in tenths of a degree for 0 <= p <= q, q > 0, by the reduced fraction
AtanDeci(p, q) ==
  CASE p = 0         -> 0
    [] p = q         -> 450
    [] 2 * p = q     -> 266
    [] 3 * p = q     -> 184
    [] 3 * p = 2 * q -> 337
    [] 4 * p = q     -> 140
    [] 4 * p = 3 * q -> 369

\* QLineF::angle(): atan2(-dy, dx) in [0, 360), counter-clockwise from 3 o'clock
\* on a y-down screen; 0 for a null line.  Tenths of a degree.
LineAngle(line) ==
  LET X == LineDx(line)
      Y == -LineDy(line)
      ax == Abs(X)
      ay == Abs(Y)
      t == IF ax = 0 /\ ay = 0 THEN 0
           ELSE IF ay <= ax THEN AtanDeci(ay, ax) ELSE 900 - AtanDeci(ax, ay)
  IN IF X >= 0 /\ Y >= 0 THEN t
     ELSE IF X < 0 /\ Y >= 0 THEN 1800 - t
     ELSE IF X < 0 /\ Y < 0 THEN 1800 + t
     ELSE (3600 - t) % 3600

\* atools::geo::normalizeCourse
normalizeCourse(degree) == degree % 3600

\* atools::geo::angleFromQt
angleFromQt(angle) == normalizeCourse(4500 - angle)

\* atools::geo::angleAbsDiff: shortest arc between two angles, 0..180
angleAbsDiff(angle1, angle2) ==
  LET d == Abs(angle1 - angle2) % 3600
  IN IF d > 1800 THEN 3600 - d ELSE d

\* QRectF::contains(QPointF): edges included, a null rectangle contains nothing
RectContains(rect, p) ==
  LET l == IF rect.w < 0 THEN rect.x + rect.w ELSE rect.x
      r == IF rect.w < 0 THEN rect.x ELSE rect.x + rect.w
      t == IF rect.h < 0 THEN rect.y + rect.h ELSE rect.y
      b == IF rect.h < 0 THEN rect.y ELSE rect.y + rect.h
  IN /\ l # r
     /\ t # b
     /\ PX(p) >= l /\ PX(p) <= r
     /\ PY(p) >= t /\ PY(p) <= b

topLeft(rect) == <<rect.x, rect.y>>
topRight(rect) == <<rect.x + rect.w, rect.y>>
bottomLeft(rect) == <<rect.x, rect.y + rect.h>>
bottomRight(rect) == <<rect.x + rect.w, rect.y + rect.h>>

\* QLineF::intersects(l, nullptr) == QLineF::BoundedIntersection
\* na = numA / denominator and nb = numB / denominator both in [0, 1]
BoundedIntersection(line, l) ==
  LET a == <<LineDx(line), LineDy(line)>>
      b == <<PX(l.p1) - PX(l.p2), PY(l.p1) - PY(l.p2)>>
      c == <<PX(line.p1) - PX(l.p1), PY(line.p1) - PY(l.p1)>>
      denominator == PY(a) * PX(b) - PX(a) * PY(b)
      numA == PY(b) * PX(c) - PX(b) * PY(c)
      numB == PX(a) * PY(c) - PY(a) * PX(c)
      InUnit(num) == IF denominator > 0 THEN num >= 0 /\ num <= denominator
                                        ELSE num <= 0 /\ num >= denominator
  IN denominator # 0 /\ InUnit(numA) /\ InUnit(numB)

-----------------------------------------------------------------------------
(* findCornerPoint and getPolygonOrientation *)

\* the loop of findCornerPoint from index i on; a vertex is skipped when its y is
\* above minY, or when its y equals minY and its y (sic) is >= minXAtMinY
RECURSIVE findCornerLoop(_, _, _, _, _, _)
findCornerLoop(poly, size, i, minIdx, minY, minXAtMinY) ==
  IF i >= size THEN minIdx
  ELSE LET point == At(poly, i)
           y == PY(point)
       IN IF y > minY
            THEN findCornerLoop(poly, size, i + 1, minIdx, minY, minXAtMinY)
          ELSE IF almostEqual(y, minY) /\ PY(point) >= minXAtMinY
            THEN findCornerLoop(poly, size, i + 1, minIdx, minY, minXAtMinY)
          ELSE findCornerLoop(poly, size, i + 1, i, y, PX(point))

findCornerPoint(poly, size) == findCornerLoop(poly, size, 0, -1, DoubleMax, DoubleMax)

\* polygonSize without the closed polygon test
polygonSizeKeepClosing(poly) == Len(poly)

\* number of vertices with the duplicate closing vertex skipped
polygonSize(poly) == IF isClosed(poly) THEN Len(poly) - 1 ELSE Len(poly)

\* orientationDet with predecessor and successor exchanged
orientationDetExchanged(a, b, c) ==
  (PX(b) * PY(a) + PX(c) * PY(b) + PY(c) * PX(a))
    - (PY(c) * PX(b) + PY(b) * PX(a) + PX(c) * PY(a))

\* det(O) of the orientation matrix of a, b, c
orientationDet(a, b, c) ==
  (PX(b) * PY(c) + PX(a) * PY(b) + PY(a) * PX(c))
    - (PY(a) * PX(b) + PY(b) * PX(c) + PX(a) * PY(c))

getPolygonOrientation(poly) ==
  LET size == polygonSize(poly)
  IN IF size <= 2 THEN "INVALID_TOO_SMALL"
     ELSE LET minPt == findCornerPoint(poly, size)
              a == At(poly, wrapIndex(minPt - 1, size))
              b == At(poly, minPt)
              c == At(poly, wrapIndex(minPt + 1, size))
              det == orientationDet(a, b, c)
          IN IF det > 0 THEN "CLOCKWISE" ELSE "COUNTERCLOCKWISE"

-----------------------------------------------------------------------------
(* PolygonLineDistance *)

PolygonLineDistance(line, length, angle, indexFrom, indexTo) ==
  [length |-> length, angle |-> angle, indexFrom |-> indexFrom,
   indexTo |-> indexTo, line |-> line]

isValid(ld) == ld.indexFrom >= 0

hasSameAngle(ld, other, maxAngleParam) ==
  angleAbsDiff(ld.angle, other.angle) < maxAngleParam

isLineIntersectingRect(line, rect) ==
  \/ RectContains(rect, line.p1)
  \/ RectContains(rect, line.p2)
  \/ BoundedIntersection(line, QLineF(topLeft(rect), topRight(rect)))
  \/ BoundedIntersection(line, QLineF(topRight(rect), bottomRight(rect)))
  \/ BoundedIntersection(line, QLineF(bottomRight(rect), bottomLeft(rect)))
  \/ BoundedIntersection(line, QLineF(bottomLeft(rect), topLeft(rect)))

isLineInsideRect(line, rect) ==
  RectContains(rect, line.p1) /\ RectContains(rect, line.p2)

\* the visibility test createPolyLines applies to a line
lineVisible(line, rect, intersect) ==
  IF intersect THEN isLineIntersectingRect(line, rect)
               ELSE isLineInsideRect(line, rect)

\* polyLineEntry keeping length and indices of a line that is not visible
polyLineEntryAlwaysValid(line, rect, i, intersect) ==
  [length |-> LineLength(line), angle |-> angleFromQt(LineAngle(line)),
   indexFrom |-> i, indexTo |-> i + 1, line |-> line]

\* the entry createPolyLines appends for line i
polyLineEntry(line, rect, i, intersect) ==
  IF lineVisible(line, rect, intersect)
    THEN PolygonLineDistance(line, LineLength(line), angleFromQt(LineAngle(line)), i, i + 1)
    ELSE PolygonLineDistance(line, 0, angleFromQt(LineAngle(line)), -1, -1)

\* distLines after the loop of createPolyLines
polyLineEntries(lines, rect, size, intersect) ==
  [k \in 1 .. size |-> polyLineEntry(lines[k], rect, k - 1, intersect)]

\* the relative angles collected by the loop: one per line but the first
relativeAngles(lines, size, wantStdDev) ==
  IF wantStdDev /\ size >= 2
    THEN [k \in 1 .. size - 1 |->
            angleAbsDiff(angleFromQt(LineAngle(lines[k + 1])), angleFromQt(LineAngle(lines[k])))]
    ELSE << >>

RECURSIVE SeqSum(_)
SeqSum(s) == IF s = << >> THEN 0 ELSE s[1] + SeqSum(Tail(s))

\* the value left in *anglesStdDev: sum of (angle - avg)^2 with avg = sum / n, as
\* the rational num / den = (sum of (n * angle - sum)^2) / n^2
stdDevValue(angles) ==
  LET n == Len(angles)
      sum == SeqSum(angles)
  IN IF n = 0 THEN [num |-> 0, den |-> 1]
     ELSE [num |-> SeqSum([k \in 1 .. n |-> (n * angles[k] - sum) * (n * angles[k] - sum)]),
           den |-> n * n]

\* createPolyLines: the returned list and the value written to the slot
\* (the slot keeps its value when anglesStdDev == nullptr)
createPolyLines(lines, rect, size, intersect, wantStdDev, slot) ==
  [distLines |-> polyLineEntries(lines, rect, size, intersect),
   anglesStdDev |-> IF wantStdDev
                      THEN stdDevValue(relativeAngles(lines, size, wantStdDev))
                      ELSE slot]

-----------------------------------------------------------------------------
(* getLongPolygonLines *)

\* variance threshold of the circle test, in square degrees
CircleThreshold == 100

\* tolerance of the length comparison of the sort, thousandths (0.001)
SortEpsilon == 1

\* the list of lines: line i runs from vertex i to vertex i + 1, wrapping
polygonLines(poly, size) ==
  [k \in 1 .. size |->
     QLineF(At(poly, wrapIndex(k - 1, size)), At(poly, wrapIndex(k, size)))]

\* first pass with lines fully visible; the touching pass runs when the first
\* pass returned an empty list
collectLines(lines, rect, size, wantStdDev) ==
  LET inside == createPolyLines(lines, rect, size, FALSE, wantStdDev, [num |-> 0, den |-> 1])
  IN IF inside.distLines = << >>
       THEN createPolyLines(lines, rect, size, TRUE, wantStdDev, inside.anglesStdDev)
       ELSE inside

\* *circle = anglesStdDev > 0. && anglesStdDev < 100.
circleTest(stdDev) ==
  stdDev.num > 0 /\ stdDev.num < CircleThreshold * 100 * stdDev.den

\* index of the first valid entry among the first size entries, -1 if none
RECURSIVE findFirstValid(_, _, _)
findFirstValid(dist, size, i) ==
  IF i >= size THEN -1
  ELSE IF isValid(At(dist, i)) THEN i
  ELSE findFirstValid(dist, size, i + 1)

\* extendLast setting indexTo to the index of the absorbed line, not one past it
extendLastIndexShort(consecutive, cur, i) ==
  LET n == Len(consecutive)
      last == consecutive[n]
  IN [consecutive EXCEPT ![n] =
        [last EXCEPT !.indexTo = i,
                     !.length = last.length + cur.length,
                     !.line = QLineF(last.line.p1, cur.line.p2)]]

\* extendLast that replaces the length of the merged entry by the length of the
\* absorbed line instead of adding it
extendLastReplaceLength(consecutive, cur, i) ==
  LET n == Len(consecutive)
      last == consecutive[n]
  IN [consecutive EXCEPT ![n] =
        [last EXCEPT !.indexTo = i + 1,
                     !.length = cur.length,
                     !.line = QLineF(last.line.p1, cur.line.p2)]]

\* extendLast that also takes over the angle of the absorbed line, so that the
\* next line is compared with the line before it and groups chain
extendLastTakeAngle(consecutive, cur, i) ==
  LET n == Len(consecutive)
      last == consecutive[n]
  IN [consecutive EXCEPT ![n] =
        [last EXCEPT !.indexTo = i + 1,
                     !.angle = cur.angle,
                     !.length = last.length + cur.length,
                     !.line = QLineF(last.line.p1, cur.line.p2)]]

\* last entry of consecutive extended by the entry cur found at index i
extendLast(consecutive, cur, i) ==
  LET n == Len(consecutive)
      last == consecutive[n]
  IN [consecutive EXCEPT ![n] =
        [last EXCEPT !.indexTo = i + 1,
                     !.length = last.length + cur.length,
                     !.line = QLineF(last.line.p1, cur.line.p2)]]

\* combineLoop without the skip of invalid entries: an invalid entry is appended
\* like an entry of another angle
RECURSIVE combineLoopKeepInvalid(_, _, _, _)
combineLoopKeepInvalid(dist, i, consecutive, maxAngleParam) ==
  IF i >= Len(dist) THEN consecutive
  ELSE LET cur == At(dist, i)
       IN IF isValid(cur) /\ hasSameAngle(cur, consecutive[Len(consecutive)], maxAngleParam)
            THEN combineLoopKeepInvalid(dist, i + 1, extendLast(consecutive, cur, i), maxAngleParam)
          ELSE combineLoopKeepInvalid(dist, i + 1, Append(consecutive, cur), maxAngleParam)

\* the combine loop from index i on
RECURSIVE combineLoop(_, _, _, _)
combineLoop(dist, i, consecutive, maxAngleParam) ==
  IF i >= Len(dist) THEN consecutive
  ELSE LET cur == At(dist, i)
       IN IF ~isValid(cur)
            THEN combineLoop(dist, i + 1, consecutive, maxAngleParam)
          ELSE IF hasSameAngle(cur, consecutive[Len(consecutive)], maxAngleParam)
            THEN combineLoop(dist, i + 1, extendLast(consecutive, cur, i), maxAngleParam)
          ELSE combineLoop(dist, i + 1, Append(consecutive, cur), maxAngleParam)

\* distLines after "Combine lines if angle is given"
combineLines(dist, size, maxAngleParam) ==
  IF maxAngleParam > 0
    THEN LET firstIdx == findFirstValid(dist, size, 0)
         IN IF firstIdx # -1
              THEN combineLoop(dist, firstIdx + 1, <<At(dist, firstIdx)>>, maxAngleParam)
              ELSE dist
    ELSE dist

\* sortLess with the larger indexFrom first among equal lengths
sortLessIndexDescending(ld1, ld2) ==
  IF almostEqualEps(ld1.length, ld2.length, 1)
    THEN ld1.indexFrom > ld2.indexFrom
    ELSE ld1.length > ld2.length

\* the comparison function of the sort
sortLess(ld1, ld2) ==
  IF almostEqualEps(ld1.length, ld2.length, SortEpsilon)
    THEN ld1.indexFrom < ld2.indexFrom
    ELSE ld1.length > ld2.length

\* the indices of idxs whose entry no entry of idxs compares less than
firstCandidates(dist, idxs) ==
  {i \in idxs : \A j \in idxs : ~sortLess(dist[j], dist[i])}

\* what std::sort may leave of the entries idxs of dist: every ordering in which
\* no entry is before one that compares less than it (std::sort is not stable,
\* entries that compare equivalent come in any order); when the comparison
\* admits no first entry, any entry may come first
RECURSIVE sortOrders(_, _)
sortOrders(dist, idxs) ==
  IF idxs = {} THEN {<< >>}
  ELSE LET firsts == firstCandidates(dist, idxs)
           heads == IF firsts = {} THEN idxs ELSE firsts
       IN UNION {{<<dist[i]>> \o rest : rest \in sortOrders(dist, idxs \ {i})} : i \in heads}

sortOutcomes(dist) == sortOrders(dist, 1 .. Len(dist))

\* pruneLines erasing from one entry too far
pruneLinesOneTooMany(dist, limitParam) ==
  IF Len(dist) > limitParam + 1 THEN SubSeq(dist, 1, limitParam + 1) ELSE dist

\* "Prune if requested"
pruneLines(dist, limitParam) ==
  IF Len(dist) > limitParam THEN SubSeq(dist, 1, limitParam) ELSE dist

-----------------------------------------------------------------------------
(* Inputs *)

RECURSIVE SeqsUpTo(_, _)
SeqsUpTo(S, n) ==
  IF n = 0 THEN {<< >>}
  ELSE LET shorter == SeqsUpTo(S, n - 1)
       IN shorter \cup {Append(s, x) : s \in {t \in shorter : Len(t) = n - 1}, x \in S}

Polygons == SeqsUpTo(Points, MaxVertices)

GridPolygons == SeqsUpTo(GridPoints, MaxVertices)

BuildPolygons == SeqsUpTo(BuildPoints, MaxVertices)

QRectF(x, y, w, h) == [x |-> x, y |-> y, w |-> w, h |-> h]

\* a viewport holding the whole grid, and one holding (1,0), (2,0) and (2,1)
\* with (0,1) and (1,2) outside
Viewports == {QRectF(0, 0, 2, 2), QRectF(1, 0, 1, 1)}

Limits == {0, 2, MaxVertices}

\* merging disabled, and a merge threshold of 100 degrees
MaxAngles == {0, 1000}

-----------------------------------------------------------------------------
(* State machine: the inputs are drawn, then one function is applied *)

\* nothing has been called yet
NoOutputs ==
  /\ pc = "idle"
  /\ orientation = "none"
  /\ minPointIndex = -1
  /\ cornerSize = 0
  /\ checkIntersect = FALSE
  /\ distLines = << >>
  /\ anglesStdDev = [num |-> 0, den |-> 1]
  /\ circle = FALSE
  /\ consecutiveLines = << >>
  /\ sortedLines = << >>
  /\ result = << >>

Init ==
  /\ polygon \in Polygons
  /\ screenRect \in Viewports
  /\ limit \in Limits
  /\ maxAngle \in MaxAngles
  /\ circleReq \in BOOLEAN
  /\ NoOutputs

\* inputs of the orientation functions: the polygon alone
InitOrient ==
  /\ polygon \in GridPolygons
  /\ screenRect = QRectF(0, 0, 2, 2)
  /\ limit = 0
  /\ maxAngle = 0
  /\ circleReq = FALSE
  /\ NoOutputs

\* inputs of createPolyLines: polygon, viewport and whether a slot is given
InitBuild ==
  /\ polygon \in BuildPolygons
  /\ screenRect \in Viewports
  /\ limit = 0
  /\ maxAngle = 0
  /\ circleReq \in BOOLEAN
  /\ NoOutputs

CallFindCornerPoint ==
  /\ pc = "idle"
  /\ \E size \in 1 .. Len(polygon) :
       /\ cornerSize' = size
       /\ minPointIndex' = findCornerPoint(polygon, size)
  /\ pc' = "findCornerPoint"
  /\ UNCHANGED <<inputs, orientation, checkIntersect, distLines, anglesStdDev,
                 circle, consecutiveLines, sortedLines, result>>

CallGetPolygonOrientation ==
  /\ pc = "idle"
  /\ orientation' = getPolygonOrientation(polygon)
  /\ pc' = "getPolygonOrientation"
  /\ UNCHANGED <<inputs, minPointIndex, cornerSize, checkIntersect, distLines,
                 anglesStdDev, circle, consecutiveLines, sortedLines, result>>

CallCreatePolyLines ==
  /\ pc = "idle"
  /\ polygonSize(polygon) >= 1
  /\ \E intersect \in BOOLEAN :
       LET size == polygonSize(polygon)
           r == createPolyLines(polygonLines(polygon, size), screenRect, size,
                                intersect, circleReq, anglesStdDev)
       IN /\ checkIntersect' = intersect
          /\ distLines' = r.distLines
          /\ anglesStdDev' = r.anglesStdDev
  /\ pc' = "createPolyLines"
  /\ UNCHANGED <<inputs, orientation, minPointIndex, cornerSize, circle,
                 consecutiveLines, sortedLines, result>>

CallGetLongPolygonLines ==
  /\ pc = "idle"
  /\ LET size == polygonSize(polygon)
     IN IF size <= 2 \/ limit = 0
          THEN /\ result' = << >>
               /\ UNCHANGED <<distLines, anglesStdDev, circle, consecutiveLines,
                              sortedLines>>
          ELSE LET r == collectLines(polygonLines(polygon, size), screenRect, size, circleReq)
                   combined == combineLines(r.distLines, size, maxAngle)
               IN /\ distLines' = r.distLines
                  /\ anglesStdDev' = r.anglesStdDev
                  /\ circle' = IF circleReq THEN circleTest(r.anglesStdDev) ELSE circle
                  /\ consecutiveLines' = combined
                  /\ \E sorted \in sortOutcomes(combined) :
                       /\ sortedLines' = sorted
                       /\ result' = pruneLines(sorted, limit)
  /\ pc' = "getLongPolygonLines"
  /\ UNCHANGED <<inputs, orientation, minPointIndex, cornerSize, checkIntersect>>

Next ==
  \/ CallGetPolygonOrientation
  \/ CallGetLongPolygonLines

Spec == Init /\ [][Next]_vars

NextOrient ==
  \/ CallFindCornerPoint
  \/ CallGetPolygonOrientation

SpecOrient == InitOrient /\ [][NextOrient]_vars

NextBuild == CallCreatePolyLines

SpecBuild == InitBuild /\ [][NextBuild]_vars

-----------------------------------------------------------------------------
(* Vocabulary of the properties *)

\* number of vertices once a closing vertex equal to the first is dropped
VertexCount(poly) ==
  IF Len(poly) > 0 /\ poly[Len(poly)] = poly[1] THEN Len(poly) - 1 ELSE Len(poly)

\* the distinct points among the vertices, closing vertex dropped
DistinctVertices(poly) == {poly[k] : k \in 1 .. VertexCount(poly)}

\* edge k (0-based) of the polygon, from vertex k to vertex k + 1 modulo the count
EdgeOf(poly, k) ==
  LET n == VertexCount(poly)
  IN [p1 |-> poly[k + 1], p2 |-> poly[((k + 1) % n) + 1]]

EdgeVector(poly, k) ==
  <<EdgeOf(poly, k).p2[1] - EdgeOf(poly, k).p1[1],
    EdgeOf(poly, k).p2[2] - EdgeOf(poly, k).p1[2]>>

SquaredLength(v) == v[1] * v[1] + v[2] * v[2]
Cross(u, v) == u[1] * v[2] - u[2] * v[1]
Dot(u, v) == u[1] * v[1] + u[2] * v[2]

\* twice the signed area by the shoelace formula: positive for vertices listed
\* counter-clockwise with y up, which is clockwise on a screen with y down
RECURSIVE ShoelaceFrom(_, _)
ShoelaceFrom(poly, k) ==
  IF k >= VertexCount(poly) THEN 0
  ELSE LET e == EdgeOf(poly, k)
       IN (e.p1[1] * e.p2[2] - e.p2[1] * e.p1[2]) + ShoelaceFrom(poly, k + 1)

TwiceSignedArea(poly) == ShoelaceFrom(poly, 0)

Reversed(poly) == [k \in 1 .. Len(poly) |-> poly[Len(poly) + 1 - k]]

IsTriangle(poly) == VertexCount(poly) = 3 /\ TwiceSignedArea(poly) # 0

InViewport(p) ==
  /\ screenRect.x <= p[1] /\ p[1] <= screenRect.x + screenRect.w
  /\ screenRect.y <= p[2] /\ p[2] <= screenRect.y + screenRect.h

EdgeInside(poly, k) == InViewport(EdgeOf(poly, k).p1) /\ InViewport(EdgeOf(poly, k).p2)

\* getLongPolygonLines returned from a polygon of 3 or more edges with limit > 0
LongLinesBuilt ==
  pc = "getLongPolygonLines" /\ VertexCount(polygon) >= 3 /\ limit > 0

-----------------------------------------------------------------------------
(* C1 *)

\* C1 (as claimed): when no edge of the polygon is fully inside the viewport and
\* an edge k of positive length touches or crosses it, the touching pass is run
\* and the untruncated result holds a valid entry of positive length covering
\* edge k.
C1_FallbackYieldsCrossingEdge ==
  (/\ LongLinesBuilt
   /\ limit >= VertexCount(polygon)
   /\ \A k \in 0 .. VertexCount(polygon) - 1 : ~EdgeInside(polygon, k))
  => \A k \in 0 .. VertexCount(polygon) - 1 :
       (isLineIntersectingRect(EdgeOf(polygon, k), screenRect)
          /\ SquaredLength(EdgeVector(polygon, k)) > 0)
       => \E m \in 1 .. Len(result) :
            /\ result[m].indexFrom >= 0
            /\ result[m].length > 0
            /\ result[m].indexFrom <= k /\ k < result[m].indexTo

-----------------------------------------------------------------------------
(* C2 *)

\* C2 (as claimed): a triangle listed clockwise with x right and y up (negative
\* shoelace area) is CLOCKWISE, and its reversal is COUNTERCLOCKWISE.
C2_ClockwiseYUp ==
  (pc = "getPolygonOrientation" /\ IsTriangle(polygon) /\ TwiceSignedArea(polygon) < 0)
  => /\ orientation = "CLOCKWISE"
     /\ getPolygonOrientation(Reversed(polygon)) = "COUNTERCLOCKWISE"

\* C2 (amended): a triangle listed clockwise with x right and y DOWN, the screen
\* coordinates of QPolygonF (positive shoelace area), is CLOCKWISE and its
\* reversal is COUNTERCLOCKWISE; a triangle listed counter-clockwise on the
\* screen is COUNTERCLOCKWISE.
C2_ClockwiseYDown ==
  (pc = "getPolygonOrientation" /\ IsTriangle(polygon))
  => /\ TwiceSignedArea(polygon) > 0 =>
          /\ orientation = "CLOCKWISE"
          /\ getPolygonOrientation(Reversed(polygon)) = "COUNTERCLOCKWISE"
     /\ TwiceSignedArea(polygon) < 0 => orientation = "COUNTERCLOCKWISE"

C2_Witness ==
  /\ pc = "getPolygonOrientation"
  /\ IsTriangle(polygon)
  /\ TwiceSignedArea(polygon) > 0
  /\ orientation = "CLOCKWISE"
  /\ getPolygonOrientation(Reversed(polygon)) = "COUNTERCLOCKWISE"

-----------------------------------------------------------------------------
(* C3 *)

\* C3 (as claimed): fewer than 3 distinct vertices, closing vertex dropped, give
\* INVALID_TOO_SMALL and an empty list.
C3_FewDistinctVertices ==
  Cardinality(DistinctVertices(polygon)) < 3
  => /\ pc = "getPolygonOrientation" => orientation = "INVALID_TOO_SMALL"
     /\ pc = "getLongPolygonLines" => result = << >>

\* C3 (amended): fewer than 3 vertices, repetitions counted and the closing
\* vertex dropped, give INVALID_TOO_SMALL and an empty list for every viewport,
\* limit and maxAngle.
C3_FewVertices ==
  VertexCount(polygon) < 3
  => /\ pc = "getPolygonOrientation" => orientation = "INVALID_TOO_SMALL"
     /\ pc = "getLongPolygonLines" => result = << >>

C3_Witness ==
  /\ pc = "getLongPolygonLines"
  /\ Len(polygon) = 3
  /\ VertexCount(polygon) = 2
  /\ Cardinality(DistinctVertices(polygon)) = 2
  /\ limit > 0
  /\ maxAngle > 0
  /\ result = << >>

-----------------------------------------------------------------------------
(* C4 *)

\* C4: the returned list has at most limit entries and is the first
\* min(limit, k) entries of the sorted list of k candidates; limit = 0 returns
\* the empty list.
C4_PrunedPrefix ==
  pc = "getLongPolygonLines"
  => /\ Len(result) <= limit
     /\ Len(result) = (IF limit < Len(sortedLines) THEN limit ELSE Len(sortedLines))
     /\ \A m \in 1 .. Len(result) : result[m] = sortedLines[m]
     /\ limit = 0 => result = << >>

C4_Witness ==
  /\ pc = "getLongPolygonLines"
  /\ limit = 2
  /\ Len(sortedLines) = 4
  /\ Len(result) = 2
  /\ result[1].length > result[2].length
  /\ result[2].length > sortedLines[3].length

-----------------------------------------------------------------------------
(* C5 *)

NearlyEqualLength(a, b) == a.length - b.length <= 1 /\ b.length - a.length <= 1

\* four vertices, four sides of one positive length, adjacent sides perpendicular
IsSquare(poly) ==
  /\ VertexCount(poly) = 4
  /\ SquaredLength(EdgeVector(poly, 0)) > 0
  /\ \A k \in 0 .. 3 :
       /\ SquaredLength(EdgeVector(poly, k)) = SquaredLength(EdgeVector(poly, 0))
       /\ Dot(EdgeVector(poly, k), EdgeVector(poly, (k + 1) % 4)) = 0

\* len is the square root of the squared length d2, in thousandths, rounded down
IsRootOf(len, d2) == len * len <= d2 * 1000000 /\ d2 * 1000000 < (len + 1) * (len + 1)

\* all four sides of a square inside the viewport come back valid, equally long,
\* in the order 0, 1, 2, 3 when nothing is merged and limit >= 4
SquareInOrder ==
  (/\ pc = "getLongPolygonLines"
   /\ IsSquare(polygon)
   /\ \A k \in 0 .. 3 : EdgeInside(polygon, k)
   /\ maxAngle <= 0
   /\ limit >= 4)
  => /\ Len(result) = 4
     /\ \A m \in 1 .. 4 :
          /\ result[m].indexFrom = m - 1
          /\ result[m].indexTo = m
          /\ result[m].length = result[1].length
          /\ IsRootOf(result[m].length, SquaredLength(EdgeVector(polygon, 0)))

NearEqualityTransitive ==
  \A i, j, k \in 1 .. Len(sortedLines) :
    (NearlyEqualLength(sortedLines[i], sortedLines[j])
       /\ NearlyEqualLength(sortedLines[j], sortedLines[k]))
    => NearlyEqualLength(sortedLines[i], sortedLines[k])

-----------------------------------------------------------------------------
(* C6 *)

\* shortest arc between two angles given in tenths of a degree
ArcDiff(a, b) ==
  LET d == IF a >= b THEN a - b ELSE b - a
  IN IF d <= 1800 THEN d ELSE 3600 - d

BuiltValid(k) == At(distLines, k).indexFrom >= 0

\* the valid line nearest before line k, -1 if there is none
RECURSIVE PrevValid(_)
PrevValid(k) ==
  IF k = 0 THEN -1
  ELSE IF BuiltValid(k - 1) THEN k - 1
  ELSE PrevValid(k - 1)

\* the valid line nearest after line k, -1 if there is none
RECURSIVE NextValid(_)
NextValid(k) ==
  IF k + 1 >= Len(distLines) THEN -1
  ELSE IF BuiltValid(k + 1) THEN k + 1
  ELSE NextValid(k + 1)

\* the first line of the group the valid line k is merged into: k itself when no
\* valid line precedes it or when it differs by maxAngle or more from the first
\* line of the group of the valid line before it
RECURSIVE GroupStart(_)
GroupStart(k) ==
  LET p == PrevValid(k)
  IN IF p = -1 THEN k
     ELSE LET g == GroupStart(p)
          IN IF ArcDiff(At(distLines, k).angle, At(distLines, g).angle) < maxAngle
               THEN g ELSE k

\* lines i, i + 1, i + 2 are valid, i and i + 1 differ by less than maxAngle and
\* i + 2 differs from both by maxAngle or more
TwoAlikeThenOther(i) ==
  /\ BuiltValid(i) /\ BuiltValid(i + 1) /\ BuiltValid(i + 2)
  /\ ArcDiff(At(distLines, i).angle, At(distLines, i + 1).angle) < maxAngle
  /\ ArcDiff(At(distLines, i + 2).angle, At(distLines, i).angle) >= maxAngle
  /\ ArcDiff(At(distLines, i + 2).angle, At(distLines, i + 1).angle) >= maxAngle

\* the combine step made one entry of lines i and i + 1 and left line i + 2 alone
MergedPairAndSingle(i) ==
  /\ \E m \in 1 .. Len(consecutiveLines) :
       /\ consecutiveLines[m].indexFrom = i
       /\ consecutiveLines[m].indexTo = i + 2
       /\ consecutiveLines[m].length = At(distLines, i).length + At(distLines, i + 1).length
       /\ consecutiveLines[m].line.p1 = At(distLines, i).line.p1
       /\ consecutiveLines[m].line.p2 = At(distLines, i + 1).line.p2
  /\ \E m \in 1 .. Len(consecutiveLines) :
       /\ consecutiveLines[m].indexFrom = i + 2
       /\ consecutiveLines[m].indexTo = i + 3
       /\ consecutiveLines[m].length = At(distLines, i + 2).length
       /\ consecutiveLines[m].line = At(distLines, i + 2).line

\* C6 (as claimed): with maxAngle > 0, valid lines i, i + 1 closer than maxAngle
\* and a valid line i + 2 at maxAngle or more from them give one merged entry
\* i..i+2 of the summed length and a separate entry for line i + 2.
C6_MergeTwoKeepThird ==
  (LongLinesBuilt /\ maxAngle > 0)
  => \A i \in 0 .. Len(distLines) - 3 : TwoAlikeThenOther(i) => MergedPairAndSingle(i)

\* C6 (amended): the same, provided line i starts a merged entry (no group of
\* earlier valid lines absorbs it) and the valid line after i + 2, if there is
\* one, differs from line i + 2 by maxAngle or more.
C6_MergeTwoKeepThirdFromGroupStart ==
  (LongLinesBuilt /\ maxAngle > 0)
  => \A i \in 0 .. Len(distLines) - 3 :
       (/\ TwoAlikeThenOther(i)
        /\ GroupStart(i) = i
        /\ NextValid(i + 2) # -1 =>
             ArcDiff(At(distLines, NextValid(i + 2)).angle, At(distLines, i + 2).angle) >= maxAngle)
       => MergedPairAndSingle(i)

\* a polygon of distinct vertices, all edges valid: edges 1 and 2 merged after a
\* first edge at maxAngle or more from them, edge 3 left alone
C6_Witness ==
  /\ LongLinesBuilt
  /\ maxAngle > 0
  /\ Cardinality(DistinctVertices(polygon)) = 4
  /\ BuiltValid(0)
  /\ TwoAlikeThenOther(1)
  /\ GroupStart(1) = 1
  /\ ArcDiff(At(distLines, 1).angle, At(distLines, 2).angle) > 0
  /\ MergedPairAndSingle(1)

-----------------------------------------------------------------------------
(* C7 *)

\* heading of edge k of the polygon, tenths of a degree
EdgeHeading(poly, k) == angleFromQt(LineAngle(EdgeOf(poly, k)))

\* the angular differences of consecutive edges, edge 0 to the last edge
TurnAngles(poly) ==
  [k \in 1 .. VertexCount(poly) - 1 |-> ArcDiff(EdgeHeading(poly, k), EdgeHeading(poly, k - 1))]

RECURSIVE SumOf(_)
SumOf(s) == IF Len(s) = 0 THEN 0 ELSE Head(s) + SumOf(Tail(s))

\* sum over the values of (n * value - sum)^2 = n^2 * (sum of squared deviations)
ScaledSquaredDeviations(values) ==
  SumOf([k \in 1 .. Len(values) |->
           (Len(values) * values[k] - SumOf(values)) * (Len(values) * values[k] - SumOf(values))])

\* mean of the squared deviations from the mean, as a rational
PopulationVariance(values) ==
  [num |-> ScaledSquaredDeviations(values), den |-> Len(values) * Len(values) * Len(values)]

RECURSIVE GCD(_, _)
GCD(a, b) == IF b = 0 THEN a ELSE GCD(b, a % b)

RationalEqual(a, b) ==
  a.num * (b.den \div GCD(a.den, b.den)) = b.num * (a.den \div GCD(a.den, b.den))

\* 0 < a < 100 square degrees (10000 in squared tenths of a degree)
VarianceOfCircle(a) == a.num > 0 /\ a.num < 10000 * a.den

\* C7 (as claimed): the value written to the variance slot is the population
\* variance of the angular differences, and circle is set iff that variance is
\* above 0 and below 100.
C7_PopulationVariance ==
  (LongLinesBuilt /\ circleReq)
  => /\ RationalEqual(anglesStdDev, PopulationVariance(TurnAngles(polygon)))
     /\ circle = VarianceOfCircle(PopulationVariance(TurnAngles(polygon)))

-----------------------------------------------------------------------------
(* C8 *)

\* all sides equally long and every two consecutive sides, the last and the
\* first included, turning by one same angle
IsRegular(poly) ==
  /\ VertexCount(poly) >= 3
  /\ SquaredLength(EdgeVector(poly, 0)) > 0
  /\ \A k \in 0 .. VertexCount(poly) - 1 :
       LET next == (k + 1) % VertexCount(poly)
       IN /\ SquaredLength(EdgeVector(poly, k)) = SquaredLength(EdgeVector(poly, 0))
          /\ Cross(EdgeVector(poly, k), EdgeVector(poly, next))
               = Cross(EdgeVector(poly, 0), EdgeVector(poly, 1))
          /\ Dot(EdgeVector(poly, k), EdgeVector(poly, next))
               = Dot(EdgeVector(poly, 0), EdgeVector(poly, 1))
          /\ Cross(EdgeVector(poly, k), EdgeVector(poly, next)) # 0

-----------------------------------------------------------------------------
(* C9 *)

\* C9: createPolyLines returns one entry per line, entry i for line i: a visible
\* line gets its Euclidean length and the indices i, i + 1, any other line gets
\* length 0 and the indices -1, -1; the entry carries the line and its angle; so
\* an entry is valid iff its line was visible under the mode asked for.
C9_OneEntryPerLine ==
  pc = "createPolyLines"
  => /\ Len(distLines) = VertexCount(polygon)
     /\ \A i \in 0 .. VertexCount(polygon) - 1 :
          LET entry == At(distLines, i)
              edge == EdgeOf(polygon, i)
              visible == IF checkIntersect THEN isLineIntersectingRect(edge, screenRect)
                                           ELSE EdgeInside(polygon, i)
          IN /\ entry.line = edge
             /\ entry.angle = EdgeHeading(polygon, i)
             /\ (entry.indexFrom >= 0) = visible
             /\ visible => /\ IsRootOf(entry.length, SquaredLength(EdgeVector(polygon, i)))
                           /\ entry.indexFrom = i
                           /\ entry.indexTo = i + 1
             /\ ~visible => /\ entry.length = 0
                            /\ entry.indexFrom = -1
                            /\ entry.indexTo = -1

\* in touching mode a line crossing the viewport with both ends outside is valid
\* next to a line that is not visible
C9_Witness ==
  /\ pc = "createPolyLines"
  /\ checkIntersect
  /\ \E i, j \in 0 .. VertexCount(polygon) - 1 :
       /\ At(distLines, i).indexFrom = i
       /\ At(distLines, i).length > 0
       /\ ~InViewport(EdgeOf(polygon, i).p1)
       /\ ~InViewport(EdgeOf(polygon, i).p2)
       /\ At(distLines, j).indexFrom = -1
       /\ At(distLines, j).length = 0

-----------------------------------------------------------------------------
(* C10 *)

\* C10 (as claimed): findCornerPoint returns a vertex of minimum y among the
\* first size vertices and, among those of minimum y, one of minimum x.
C10_MinYThenMinX ==
  pc = "findCornerPoint"
  => /\ minPointIndex \in 0 .. cornerSize - 1
     /\ \A k \in 0 .. cornerSize - 1 :
          \/ At(polygon, minPointIndex)[2] < At(polygon, k)[2]
          \/ /\ At(polygon, minPointIndex)[2] = At(polygon, k)[2]
             /\ At(polygon, minPointIndex)[1] <= At(polygon, k)[1]

-----------------------------------------------------------------------------
(* C11 *)

\* the builder classified at least one line as valid
SomeBuiltValid == \E k \in 0 .. Len(distLines) - 1 : BuiltValid(k)

\* C11 (as claimed): with maxAngle > 0 no entry of the list getLongPolygonLines
\* returns is invalid, whatever the builder classified, the case of no visible
\* line included.
C11_NoInvalidReturned ==
  (LongLinesBuilt /\ maxAngle > 0)
  => \A m \in 1 .. Len(result) : result[m].indexFrom # -1

\* C11 (amended): with maxAngle > 0 and at least one line classified valid, no
\* entry after the combine step and no returned entry is invalid; when no line is
\* valid the combine step leaves the list as built and the returned list holds
\* the first limit of its invalid entries.
C11_NoInvalidReturnedWhenSomeValid ==
  (LongLinesBuilt /\ maxAngle > 0)
  => IF SomeBuiltValid
       THEN /\ \A m \in 1 .. Len(consecutiveLines) : consecutiveLines[m].indexFrom >= 0
            /\ \A m \in 1 .. Len(result) : result[m].indexFrom >= 0
            /\ Len(result) >= 1
       ELSE /\ consecutiveLines = distLines
            /\ Len(result) = (IF limit < Len(distLines) THEN limit ELSE Len(distLines))
            /\ \A m \in 1 .. Len(result) :
                 result[m].indexFrom = -1 /\ result[m].length = 0

\* a polygon of distinct vertices with valid and invalid lines, an invalid line
\* between two valid ones, merged with maxAngle > 0 into valid entries only
C11_Witness ==
  /\ LongLinesBuilt
  /\ maxAngle > 0
  /\ Cardinality(DistinctVertices(polygon)) = Len(polygon)
  /\ \E k \in 1 .. Len(distLines) - 1 :
       ~BuiltValid(k) /\ PrevValid(k) # -1 /\ NextValid(k) # -1
  /\ Len(result) >= 1
  /\ \A m \in 1 .. Len(result) : result[m].indexFrom >= 0

-----------------------------------------------------------------------------
(* C12 *)

\* the entry of the combine step whose index span holds line k
EntryOver(k) ==
  {m \in 1 .. Len(consecutiveLines) :
     consecutiveLines[m].indexFrom <= k /\ k < consecutiveLines[m].indexTo}

\* C12: with maxAngle > 0 every merged entry starts at a valid line and keeps
\* that line's angle; every valid line in its span differs from that angle by
\* less than maxAngle (shortest arc); the entry after it starts at the next
\* valid line behind its span, which differs from its angle by maxAngle or more;
\* and a valid line starts an entry exactly when it is the first valid line or
\* differs by maxAngle or more from the first line of the group before it, so
\* groups do not chain.
C12_ComparedWithFirstEdgeOfGroup ==
  (LongLinesBuilt /\ maxAngle > 0 /\ SomeBuiltValid)
  => /\ \A m \in 1 .. Len(consecutiveLines) :
          LET e == consecutiveLines[m]
          IN /\ e.indexFrom >= 0 /\ e.indexFrom < e.indexTo
             /\ BuiltValid(e.indexFrom) /\ BuiltValid(e.indexTo - 1)
             /\ e.angle = At(distLines, e.indexFrom).angle
             /\ \A k \in e.indexFrom .. e.indexTo - 1 :
                  BuiltValid(k) => ArcDiff(At(distLines, k).angle, e.angle) < maxAngle
     /\ \A m \in 1 .. Len(consecutiveLines) - 1 :
          LET e == consecutiveLines[m]
              f == consecutiveLines[m + 1]
          IN /\ f.indexFrom = NextValid(e.indexTo - 1)
             /\ ArcDiff(At(distLines, f.indexFrom).angle, e.angle) >= maxAngle
     /\ \A k \in 0 .. Len(distLines) - 1 :
          BuiltValid(k) =>
            /\ Cardinality(EntryOver(k)) = 1
            /\ \A m \in EntryOver(k) : consecutiveLines[m].indexFrom = GroupStart(k)
            /\ (\E m \in 1 .. Len(consecutiveLines) : consecutiveLines[m].indexFrom = k)
                 <=> (\/ PrevValid(k) = -1
                      \/ ArcDiff(At(distLines, k).angle,
                                 At(distLines, GroupStart(PrevValid(k))).angle) >= maxAngle)

\* a polygon of distinct vertices with valid lines g, k, c in a row: k is within
\* maxAngle of g and of c, c is at maxAngle or more from g, and the combine step
\* made the groups {g, k} and {c}
C12_Witness ==
  /\ LongLinesBuilt
  /\ maxAngle > 0
  /\ Cardinality(DistinctVertices(polygon)) = Len(polygon)
  /\ \E g \in 0 .. Len(distLines) - 3 :
       /\ BuiltValid(g) /\ BuiltValid(g + 1) /\ BuiltValid(g + 2)
       /\ GroupStart(g) = g
       /\ ArcDiff(At(distLines, g + 1).angle, At(distLines, g).angle) < maxAngle
       /\ ArcDiff(At(distLines, g + 2).angle, At(distLines, g + 1).angle) < maxAngle
       /\ ArcDiff(At(distLines, g + 2).angle, At(distLines, g).angle) >= maxAngle
       /\ \E m \in 1 .. Len(consecutiveLines) - 1 :
            /\ consecutiveLines[m].indexFrom = g
            /\ consecutiveLines[m].indexTo = g + 2
            /\ consecutiveLines[m + 1].indexFrom = g + 2

-----------------------------------------------------------------------------
(* C13 *)

\* sum of the lengths of the polygon edges from .. to - 1
RECURSIVE SpanLength(_, _)
SpanLength(from, to) ==
  IF from >= to THEN 0
  ELSE LineLength(EdgeOf(polygon, from)) + SpanLength(from + 1, to)

\* sum of the lengths of the polygon edges from .. to - 1 the builder classified
\* valid
RECURSIVE ValidSpanLength(_, _)
ValidSpanLength(from, to) ==
  IF from >= to THEN 0
  ELSE (IF BuiltValid(from) THEN LineLength(EdgeOf(polygon, from)) ELSE 0)
       + ValidSpanLength(from + 1, to)

\* C13 (as claimed): with maxAngle > 0 every line in the index span of a returned
\* valid entry was classified valid by the builder, and the entry's length is the
\* sum of the lengths of all polygon edges in its span.
C13_SpanHoldsValidLinesOnly ==
  (LongLinesBuilt /\ maxAngle > 0)
  => \A m \in 1 .. Len(result) :
       result[m].indexFrom >= 0 =>
         /\ \A k \in result[m].indexFrom .. result[m].indexTo - 1 : BuiltValid(k)
         /\ result[m].length = SpanLength(result[m].indexFrom, result[m].indexTo)

\* C13 (amended): with maxAngle > 0 a returned valid entry joins valid lines that
\* follow one another among the valid lines: its span starts and ends with a
\* valid line, runs from the start point of the first to the end point of the
\* last, may hold invalid lines in between, and its length is the sum of the
\* lengths of the valid lines in the span only.
C13_SpanEndsValidSumsValidLines ==
  (LongLinesBuilt /\ maxAngle > 0)
  => \A m \in 1 .. Len(result) :
       result[m].indexFrom >= 0 =>
         /\ result[m].indexFrom < result[m].indexTo
         /\ result[m].indexTo <= Len(distLines)
         /\ BuiltValid(result[m].indexFrom)
         /\ BuiltValid(result[m].indexTo - 1)
         /\ result[m].line.p1 = EdgeOf(polygon, result[m].indexFrom).p1
         /\ result[m].line.p2 = EdgeOf(polygon, result[m].indexTo - 1).p2
         /\ result[m].length = ValidSpanLength(result[m].indexFrom, result[m].indexTo)

\* a polygon of distinct vertices: a returned entry merged from two valid lines
\* of positive length with an invalid line of positive length between them
C13_Witness ==
  /\ LongLinesBuilt
  /\ maxAngle > 0
  /\ Cardinality(DistinctVertices(polygon)) = Len(polygon)
  /\ \E m \in 1 .. Len(result) :
       /\ result[m].indexFrom >= 0
       /\ result[m].indexTo - result[m].indexFrom >= 3
       /\ \E k \in result[m].indexFrom + 1 .. result[m].indexTo - 2 : ~BuiltValid(k)
       /\ result[m].length = ValidSpanLength(result[m].indexFrom, result[m].indexTo)
       /\ result[m].length < SpanLength(result[m].indexFrom, result[m].indexTo)
       /\ result[m].length > At(distLines, result[m].indexFrom).length

====
